---- MODULE Spec2Model ----
(***************************************************************************)
(* ThreadSafeInventoryService (inventory/service/                          *)
(* thread_safe_inventory_service.py): a record map, two bisect-maintained  *)
(* sorted indices, an RLock and four functools.lru_cache query caches,     *)
(* together with the unindexed reference Inventory                         *)
(* (inventory/service/inventory_service.py).                               *)
(*                                                                         *)
(* Prices are floats in the program and small integers here; NaN, which    *)
(* passes the "price < 0" validation and is outside the documented input   *)
(* domain (price: real >= 0), is not modelled.                             *)
(***************************************************************************)
EXTENDS Integers, Sequences, FiniteSets, TLC

(***************************************************************************)
(* Bounds of the model: prices 0 .. MaxPrice, quantities 0 .. MaxQty, k up  *)
(* to MaxK; a query that misses the cache is started only while fewer than *)
(* MaxCached results are cached, unless the callers are to fill the caches *)
(* (D.lru below).  The caches of the range queries hold RangeCacheSize      *)
(* results each and those of the top-K queries TopKCacheSize, standing for *)
(* the 128 and 64 of the program.                                          *)
(***************************************************************************)
MaxPrice == 1
MaxQty == 2
MaxK == 3
MaxCached == 1
RangeCacheSize == 2
TopKCacheSize == 1

Threads == {"t1", "t2"}
SeqThread == "t1"
NoThread == "no_thread"

None == "None"
InvalidItemError == "InvalidItemError"
ItemNotFoundError == "ItemNotFoundError"
KeyError == "KeyError"

(***************************************************************************)
(* Python strings, listed in ascending code point order.  "" and           *)
(* chr(0x10ffff) are the two sentinels of the range queries;               *)
(* chr(0x10ffff)+"A" is an identifier that sorts after the upper sentinel. *)
(***************************************************************************)
EmptyStr == ""
Chr10FFFF == "chr(0x10ffff)"
StrOrd == <<EmptyStr, "A", "B", Chr10FFFF, "chr(0x10ffff)A">>

ItemIds == {"A", "B", "chr(0x10ffff)A"}
SmallIds == {"A", "B"}

Prices == 0 .. MaxPrice
Qtys == 0 .. MaxQty
InPrices == -1 .. MaxPrice
InQtys == -1 .. MaxQty
Ks == -1 .. MaxK
\* metadata: omitted (None), an empty mapping, a non-empty mapping
EmptyMeta == "{}"
Metadatas == {None, EmptyMeta, "{'k': 'v'}"}

StrRank(s) == CHOOSE i \in 1 .. Len(StrOrd) : StrOrd[i] = s

StrLess(a, b) == StrRank(a) < StrRank(b)

\* Python's tuple comparison of (number, str) pairs
TupleLess(x, y) == IF x[1] # y[1] THEN x[1] < y[1] ELSE StrLess(x[2], y[2])

\* bisect.bisect_left(a, x): 0-based insertion point
RECURSIVE BisectLeftLoop(_, _, _, _)
BisectLeftLoop(a, x, lo, hi) ==
    IF lo < hi
    THEN LET mid == (lo + hi) \div 2
         IN  IF TupleLess(a[mid + 1], x)
             THEN BisectLeftLoop(a, x, mid + 1, hi)
             ELSE BisectLeftLoop(a, x, lo, mid)
    ELSE lo

bisect_left(a, x) == BisectLeftLoop(a, x, 0, Len(a))

\* bisect.bisect_right(a, x)
RECURSIVE BisectRightLoop(_, _, _, _)
BisectRightLoop(a, x, lo, hi) ==
    IF lo < hi
    THEN LET mid == (lo + hi) \div 2
         IN  IF TupleLess(x, a[mid + 1])
             THEN BisectRightLoop(a, x, lo, mid)
             ELSE BisectRightLoop(a, x, mid + 1, hi)
    ELSE lo

bisect_right(a, x) == BisectRightLoop(a, x, 0, Len(a))

\* list.insert(idx, x) for 0 <= idx <= len
ListInsert(a, idx, x) == SubSeq(a, 1, idx) \o <<x>> \o SubSeq(a, idx + 1, Len(a))

\* list.pop(): the last entry goes
ListPop_Last(a, idx) == SubSeq(a, 1, Len(a) - 1)

\* list.pop(idx) for 0 <= idx < len: the list that remains
ListPop(a, idx) == SubSeq(a, 1, idx) \o SubSeq(a, idx + 2, Len(a))

\* the entry is appended
insort_Append(a, x) == a \o <<x>>

\* bisect.insort(a, x)
insort(a, x) == ListInsert(a, bisect_right(a, x), x)

\* the stale entry is left in the index
RemoveEntry_Skipped(index, key) == index

\* "idx = bisect_left(index, key); if idx < len(index) and index[idx] == key:
\*  index.pop(idx)"
RemoveEntry(index, key) ==
    LET idx == bisect_left(index, key)
    IN  IF idx < Len(index) /\ index[idx + 1] = key
        THEN ListPop(index, idx)
        ELSE index

\* the first entries instead of the last: a[:-start]
SliceFrom_Head(a, start) ==
    SubSeq(a, 1, IF 0 - start < Len(a) THEN 0 - start ELSE Len(a))

\* a[start:] of a Python list, start any integer
SliceFrom(a, start) ==
    LET s0 == IF start < 0 THEN Len(a) + start ELSE start
        s  == IF s0 < 0 THEN 0 ELSE s0
    IN  SubSeq(a, s + 1, Len(a))

\* a[left:right] for 0 <= left, right <= len
Slice(a, left, right) == SubSeq(a, left + 1, right)

\* reversed(a), as a list
RECURSIVE Reversed(_)
Reversed(a) == IF a = <<>> THEN <<>> ELSE Reversed(Tail(a)) \o <<Head(a)>>

\* the metadata is stored as given, None included
Item_MetadataAsGiven(price, qty, metadata) ==
    [price |-> price, qty |-> qty, metadata |-> metadata]

\* Item(price, qty, metadata or {}): None and the empty mapping are falsy
Item(price, qty, metadata) ==
    [price |-> price, qty |-> qty,
     metadata |-> IF metadata \in {None, EmptyMeta} THEN EmptyMeta ELSE metadata]

(***************************************************************************)
(* The bodies of the four cached queries, as functions of the guarded      *)
(* state.  A subscript self._items[item_id] of a missing key raises        *)
(* KeyError.                                                               *)
(***************************************************************************)
\* What a call produced: the exception raised, if any, else the Python type
\* of the value returned and the value.
OkAs(kind, v) == [exc |-> "", kind |-> kind, val |-> <<v>>]
Ok(v) == OkAs("number", v)
OkNone == OkAs("NoneType", None)
Raise(e) == [exc |-> e, kind |-> "exception", val |-> <<>>]

HasMissing(its, sl) == \E i \in 1 .. Len(sl) : sl[i][2] \notin DOMAIN its

\* "left = bisect_left(index, (low, "")); right = bisect_right(index,
\*  (high, chr(0x10ffff))); index[left:right]"
RangeSlice(index, low, high) ==
    LET left  == bisect_left(index, <<low, EmptyStr>>)
        right == bisect_right(index, <<high, Chr10FFFF>>)
    IN  Slice(index, left, right)

RECURSIVE SumQty(_, _)
SumQty(its, sl) ==
    IF sl = <<>> THEN 0 ELSE its[Head(sl)[2]].qty + SumQty(its, Tail(sl))

RECURSIVE SumValue(_, _)
SumValue(its, sl) ==
    IF sl = <<>> THEN 0
    ELSE its[Head(sl)[2]].price * its[Head(sl)[2]].qty + SumValue(its, Tail(sl))

range_query_quantity(its, pidx, low, high) ==
    LET sl == RangeSlice(pidx, low, high)
    IN  IF HasMissing(its, sl) THEN Raise(KeyError) ELSE Ok(SumQty(its, sl))

range_query_value(its, pidx, low, high) ==
    LET sl == RangeSlice(pidx, low, high)
    IN  IF HasMissing(its, sl) THEN Raise(KeyError) ELSE Ok(SumValue(its, sl))

\* "slice_k = index[-k:]; [(item_id, self._items[item_id]) for _, item_id in
\*  reversed(slice_k)]"
TopK(its, index, k) ==
    LET slice_k == SliceFrom(index, 0 - k)
        rev     == Reversed(slice_k)
    IN  IF HasMissing(its, slice_k) THEN Raise(KeyError)
        ELSE OkAs("list", [i \in 1 .. Len(rev) |-> <<rev[i][2], its[rev[i][2]]>>])

top_k_by_price(its, pidx, k) == TopK(its, pidx, k)

top_k_by_quantity(its, qidx, k) == TopK(its, qidx, k)

RangeQueries == {"range_query_quantity", "range_query_value"}
TopKQueries == {"top_k_by_price", "top_k_by_quantity"}
QueryNames == RangeQueries \cup TopKQueries

\* "-> int" / "-> float", "-> list[tuple[str, Item]]"
KindOf(op) == IF op \in RangeQueries THEN "number" ELSE "list"

\* the decorated function that the lru_cache wrapper calls on a miss
QueryBody(its, pidx, qidx, c) ==
    CASE c.op = "range_query_quantity" -> range_query_quantity(its, pidx, c.low, c.high)
      [] c.op = "range_query_value"    -> range_query_value(its, pidx, c.low, c.high)
      [] c.op = "top_k_by_price"       -> top_k_by_price(its, pidx, c.k)
      [] c.op = "top_k_by_quantity"    -> top_k_by_quantity(its, qidx, c.k)

\* the key under which lru_cache stores a call: the method's arguments, self
\* among them
Sig(c) == <<c.op, c.low, c.high, c.k, c.self>>

(***************************************************************************)
(* The reference Inventory: sums and largest-k over the record map alone.  *)
(***************************************************************************)
InRange(its, low, high) ==
    {i \in DOMAIN its : low <= its[i].price /\ its[i].price <= high}

\* sum(item.qty for item in self._items.values() if low <= item.price <= high)
RECURSIVE SumQtyOver(_, _)
SumQtyOver(its, ids) ==
    IF ids = {} THEN 0
    ELSE LET i == CHOOSE x \in ids : TRUE
         IN  its[i].qty + SumQtyOver(its, ids \ {i})

\* sum(item.price * item.qty for item in ... if low <= item.price <= high)
RECURSIVE SumValueOver(_, _)
SumValueOver(its, ids) ==
    IF ids = {} THEN 0
    ELSE LET i == CHOOSE x \in ids : TRUE
         IN  its[i].price * its[i].qty + SumValueOver(its, ids \ {i})

Inventory_range_query_quantity(its, low, high) ==
    SumQtyOver(its, InRange(its, low, high))

Inventory_range_query_value(its, low, high) ==
    SumValueOver(its, InRange(its, low, high))

(***************************************************************************)
(* State.  items, price_index, quantity_index and lock are the slots of    *)
(* the service; cache holds the four lru_cache dictionaries, keyed by call *)
(* signature.  pc, call, old and ret are each thread's position, the       *)
(* arguments of its current (or last) call, the local "old"/"item", and    *)
(* the value or exception the call produced.  iters[t] is the list         *)
(* iterator that __iter__ returned to t, while t keeps it.  recency is,    *)
(* per query function, the order in which its cached signatures were last  *)
(* used.  self names the instance the callers are using (the slots above   *)
(* are its slots) and other holds the slots of the second instance; the    *)
(* caches belong to the class and serve both.                              *)
(*                                                                         *)
(* History variables, read by no action guard:                             *)
(*   torn[t]      the guarded state was mid-mutation when t last read it   *)
(*   mutSince[t]  a mutation was in progress when t invoked its current    *)
(*                (or last) query, or the record map or an index was       *)
(*                written after that                                       *)
(*   lastUpsert   per identifier, the arguments of the latest upsert_item  *)
(*                to take the lock since the latest successful             *)
(*                remove_item of that identifier                           *)
(*   lastCleared  the cache entries that the latest mutation dropped       *)
(*                (see Track)                                              *)
(*   iterBase[t]  the record map as it was when t obtained the iterator it *)
(*                holds (see Track)                                        *)
(*   pre[t]       the record map, indices and caches as they were when t   *)
(*                took the lock for the upsert_item or remove_item it is   *)
(*                executing (see Track)                                    *)
(*   epoch        per signature, the first result returned since the       *)
(*                latest mutation to a call that no mutation overlapped    *)
(*                (see Track)                                              *)
(***************************************************************************)
VARIABLES items, price_index, quantity_index, lock, cache, recency,
          pc, call, old, ret, iters,
          self, other,
          torn, mutSince, lastUpsert, lastCleared, pre, iterBase, epoch

guarded == <<items, price_index, quantity_index>>
service == <<items, price_index, quantity_index, lock, cache, recency>>
frames == <<pc, call, old, ret, iters>>
vars == <<items, price_index, quantity_index, lock, cache, recency,
          pc, call, old, ret, iters,
          self, other,
          torn, mutSince, lastUpsert, lastCleared, pre, iterBase, epoch>>

EmptyDict == [x \in {} |-> x]
DictSet(d, k, v) == [i \in (DOMAIN d) \cup {k} |-> IF i = k THEN v ELSE d[i]]
DictPop(d, k) == [i \in (DOMAIN d) \ {k} |-> d[i]]

\* two instances of ThreadSafeInventoryService
Instances == {"a", "b"}
Other(j) == IF j = "a" THEN "b" ELSE "a"

NoCall == [op |-> "none", item_id |-> "", price |-> 0, qty |-> 0,
           metadata |-> None, low |-> 0, high |-> 0, k |-> 0, self |-> "a"]
NoItem == <<>>
NoIter == <<>>
StopIteration == "StopIteration"

\* threading.RLock: owner and recursion count
Unlocked == [owner |-> NoThread, count |-> 0]

\* no mutual exclusion
LockAvailable_Always(lk, t) == TRUE

\* acquire() returns at once when the lock is free or owned by the caller
LockAvailable(lk, t) == lk.owner \in {NoThread, t}

acquire(lk, t) == [owner |-> t, count |-> lk.count + 1]

\* the lock is kept on the way out
release_Kept(lk) == lk

release(lk) == IF lk.count <= 1 THEN Unlocked ELSE [lk EXCEPT !.count = @ - 1]

\* only the price is validated
Invalid_PriceOnly(price, qty) == price < 0

\* "if price < 0 or qty < 0: raise InvalidItemError"
Invalid(price, qty) == price < 0 \/ qty < 0

\* the caches survive the mutation
ClearCaches_Skipped(c) == c

\* _clear_caches: cache_clear() of each of the four wrappers
ClearCaches(c) == EmptyDict

\* "@lru_cache(maxsize=128)" on the range queries, "@lru_cache(maxsize=64)"
\* on the top-K queries
MaxSize(op) == IF op \in RangeQueries THEN RangeCacheSize ELSE TopKCacheSize

\* the order of use of the signatures each wrapper holds, the least
\* recently used first
NoRecency == [op \in QueryNames |-> <<>>]

InCache(c, sig) == sig \in DOMAIN c

\* the links of the signatures that are still cached
Linked(r, c) == [op \in QueryNames |-> SelectSeq(r[op], LAMBDA sig : InCache(c, sig))]

\* a hit makes the signature the most recently used
Touch(r, sig) ==
    [r EXCEPT ![sig[1]] = SelectSeq(@, LAMBDA x : x # sig) \o <<sig>>]

\* the signature that a full cache drops
Evicted(r, op) == r[op][1]

\* every present identifier has exactly its (price, id) and (qty, id) entry,
\* and the indices hold nothing else
Consistent(its, pidx, qidx) ==
    /\ Len(pidx) = Cardinality(DOMAIN its)
    /\ Len(qidx) = Cardinality(DOMAIN its)
    /\ \A i \in DOMAIN its :
          /\ \E n \in 1 .. Len(pidx) : pidx[n] = <<its[i].price, i>>
          /\ \E n \in 1 .. Len(qidx) : qidx[n] = <<its[i].qty, i>>

\* "self._items = {}; self._price_index = []; self._quantity_index = [];
\*  self._lock = threading.RLock()"
NewService == [items |-> EmptyDict, price_index |-> <<>>, quantity_index |-> <<>>,
               lock |-> Unlocked]

Init ==
    /\ items = EmptyDict
    /\ price_index = <<>>
    /\ quantity_index = <<>>
    /\ lock = Unlocked
    /\ cache = EmptyDict
    /\ recency = NoRecency
    /\ pc = [t \in Threads |-> "idle"]
    /\ call = [t \in Threads |-> NoCall]
    /\ old = [t \in Threads |-> NoItem]
    /\ ret = [t \in Threads |-> OkNone]
    /\ iters = [t \in Threads |-> NoIter]
    /\ self = "a"
    /\ other = NewService
    /\ torn = [t \in Threads |-> FALSE]
    /\ mutSince = [t \in Threads |-> FALSE]
    /\ lastUpsert = EmptyDict
    /\ lastCleared = EmptyDict
    /\ pre = [t \in Threads |-> <<>>]
    /\ iterBase = [t \in Threads |-> <<>>]
    /\ epoch = EmptyDict

\* some thread is inside the critical section of upsert_item or remove_item
MutationInProgress ==
    \E u \in Threads : pc[u] \in
        {"upsert_pop_price", "upsert_pop_qty", "upsert_store", "upsert_ins_price",
         "upsert_ins_qty", "upsert_clear", "remove_pop_price", "remove_pop_qty",
         "remove_clear"}

\* a step that writes the record map or an index is seen by every thread
\* whose current (or last) call is a query
Mutated == [u \in Threads |-> call[u].op \in QueryNames]

(***************************************************************************)
(* upsert_item                                                             *)
(***************************************************************************)
\* the call and its validation, before the lock is requested
UpsertCall(t, item_id, price, qty, metadata) ==
    /\ pc[t] = "idle"
    /\ call' = [call EXCEPT ![t] = [NoCall EXCEPT !.op = "upsert_item",
                   !.item_id = item_id, !.price = price, !.qty = qty,
                   !.metadata = metadata]]
    /\ IF Invalid(price, qty)
       THEN /\ ret' = [ret EXCEPT ![t] = Raise(InvalidItemError)]
            /\ pc' = pc
       ELSE /\ ret' = [ret EXCEPT ![t] = OkNone]
            /\ pc' = [pc EXCEPT ![t] = "upsert_enter"]
    /\ old' = [old EXCEPT ![t] = NoItem]
    /\ torn' = [torn EXCEPT ![t] = FALSE]
    /\ mutSince' = [mutSince EXCEPT ![t] = FALSE]
    /\ UNCHANGED <<iters, service, lastUpsert>>

\* "with self._lock: old = self._items.get(item_id); if old:"
UpsertEnter(t) ==
    /\ pc[t] = "upsert_enter"
    /\ LockAvailable(lock, t)
    /\ lock' = acquire(lock, t)
    /\ old' = [old EXCEPT ![t] =
                  IF call[t].item_id \in DOMAIN items
                  THEN <<items[call[t].item_id]>> ELSE NoItem]
    /\ pc' = [pc EXCEPT ![t] =
                  IF call[t].item_id \in DOMAIN items
                  THEN "upsert_pop_price" ELSE "upsert_store"]
    /\ lastUpsert' = DictSet(lastUpsert, call[t].item_id,
                             [price |-> call[t].price, qty |-> call[t].qty,
                              metadata |-> call[t].metadata])
    /\ UNCHANGED <<iters, guarded, cache, recency, call, ret, torn, mutSince>>

\* remove old price index
UpsertPopPrice(t) ==
    /\ pc[t] = "upsert_pop_price"
    /\ price_index' = RemoveEntry(price_index, <<old[t][1].price, call[t].item_id>>)
    /\ pc' = [pc EXCEPT ![t] = "upsert_pop_qty"]
    /\ mutSince' = Mutated
    /\ UNCHANGED <<iters, items, quantity_index, lock, cache, recency, call, old, ret, torn, lastUpsert>>

\* remove old quantity index
UpsertPopQty(t) ==
    /\ pc[t] = "upsert_pop_qty"
    /\ quantity_index' = RemoveEntry(quantity_index, <<old[t][1].qty, call[t].item_id>>)
    /\ pc' = [pc EXCEPT ![t] = "upsert_store"]
    /\ mutSince' = Mutated
    /\ UNCHANGED <<iters, items, price_index, lock, cache, recency, call, old, ret, torn, lastUpsert>>

\* "self._items[item_id] = Item(price, qty, metadata or {})"
UpsertStore(t) ==
    /\ pc[t] = "upsert_store"
    /\ items' = DictSet(items, call[t].item_id,
                        Item(call[t].price, call[t].qty, call[t].metadata))
    /\ pc' = [pc EXCEPT ![t] = "upsert_ins_price"]
    /\ mutSince' = Mutated
    /\ UNCHANGED <<iters, price_index, quantity_index, lock, cache, recency, call, old, ret, torn, lastUpsert>>

\* "bisect.insort(self._price_index, (price, item_id))"
UpsertInsPrice(t) ==
    /\ pc[t] = "upsert_ins_price"
    /\ price_index' = insort(price_index, <<call[t].price, call[t].item_id>>)
    /\ pc' = [pc EXCEPT ![t] = "upsert_ins_qty"]
    /\ mutSince' = Mutated
    /\ UNCHANGED <<iters, items, quantity_index, lock, cache, recency, call, old, ret, torn, lastUpsert>>

\* "bisect.insort(self._quantity_index, (qty, item_id))"
UpsertInsQty(t) ==
    /\ pc[t] = "upsert_ins_qty"
    /\ quantity_index' = insort(quantity_index, <<call[t].qty, call[t].item_id>>)
    /\ pc' = [pc EXCEPT ![t] = "upsert_clear"]
    /\ mutSince' = Mutated
    /\ UNCHANGED <<iters, items, price_index, lock, cache, recency, call, old, ret, torn, lastUpsert>>

\* "self._clear_caches()", then the end of the with block
UpsertClear(t) ==
    /\ pc[t] = "upsert_clear"
    /\ cache' = ClearCaches(cache)
    /\ recency' = Linked(recency, cache')
    /\ lock' = release(lock)
    /\ pc' = [pc EXCEPT ![t] = "idle"]
    /\ old' = [old EXCEPT ![t] = NoItem]
    /\ call' = [call EXCEPT ![t] = [NoCall EXCEPT !.op = "upsert_item"]]
    /\ UNCHANGED <<iters, guarded, ret, torn, mutSince, lastUpsert>>

(***************************************************************************)
(* remove_item                                                             *)
(***************************************************************************)
\* "with self._lock: item = self._items.pop(item_id, None); if item is None:
\*  raise ItemNotFoundError" (the with block releases the lock on the raise)
RemoveEnter(t, item_id) ==
    /\ pc[t] = "idle"
    /\ LockAvailable(lock, t)
    /\ call' = [call EXCEPT ![t] = [NoCall EXCEPT !.op = "remove_item",
                                                  !.item_id = item_id]]
    /\ torn' = [torn EXCEPT ![t] = FALSE]
    /\ IF item_id \in DOMAIN items
       THEN /\ items' = DictPop(items, item_id)
            /\ old' = [old EXCEPT ![t] = <<items[item_id]>>]
            /\ lock' = acquire(lock, t)
            /\ ret' = [ret EXCEPT ![t] = OkNone]
            /\ pc' = [pc EXCEPT ![t] = "remove_pop_price"]
            /\ mutSince' = [Mutated EXCEPT ![t] = FALSE]
            /\ lastUpsert' = DictPop(lastUpsert, item_id)
       ELSE /\ items' = items
            /\ old' = [old EXCEPT ![t] = NoItem]
            /\ lock' = release(acquire(lock, t))
            /\ ret' = [ret EXCEPT ![t] = Raise(ItemNotFoundError)]
            /\ pc' = pc
            /\ mutSince' = [mutSince EXCEPT ![t] = FALSE]
            /\ lastUpsert' = lastUpsert
    /\ UNCHANGED <<iters, price_index, quantity_index, cache, recency>>

\* remove from price index
RemovePopPrice(t) ==
    /\ pc[t] = "remove_pop_price"
    /\ price_index' = RemoveEntry(price_index, <<old[t][1].price, call[t].item_id>>)
    /\ pc' = [pc EXCEPT ![t] = "remove_pop_qty"]
    /\ mutSince' = Mutated
    /\ UNCHANGED <<iters, items, quantity_index, lock, cache, recency, call, old, ret, torn, lastUpsert>>

\* remove from quantity index
RemovePopQty(t) ==
    /\ pc[t] = "remove_pop_qty"
    /\ quantity_index' = RemoveEntry(quantity_index, <<old[t][1].qty, call[t].item_id>>)
    /\ pc' = [pc EXCEPT ![t] = "remove_clear"]
    /\ mutSince' = Mutated
    /\ UNCHANGED <<iters, items, price_index, lock, cache, recency, call, old, ret, torn, lastUpsert>>

\* "self._clear_caches()", then the end of the with block
RemoveClear(t) ==
    /\ pc[t] = "remove_clear"
    /\ cache' = ClearCaches(cache)
    /\ recency' = Linked(recency, cache')
    /\ lock' = release(lock)
    /\ pc' = [pc EXCEPT ![t] = "idle"]
    /\ old' = [old EXCEPT ![t] = NoItem]
    /\ call' = [call EXCEPT ![t] = [NoCall EXCEPT !.op = "remove_item"]]
    /\ UNCHANGED <<iters, guarded, ret, torn, mutSince, lastUpsert>>

(***************************************************************************)
(* get_item, __len__, __iter__: one with block each                        *)
(***************************************************************************)
\* "try: return self._items[item_id]; except KeyError: raise ItemNotFoundError"
get_item(its, item_id) ==
    IF item_id \in DOMAIN its THEN OkAs("Item", its[item_id]) ELSE Raise(ItemNotFoundError)

GetItem(t, item_id) ==
    /\ pc[t] = "idle"
    /\ LockAvailable(lock, t)
    /\ lock' = release(acquire(lock, t))
    /\ call' = [call EXCEPT ![t] = [NoCall EXCEPT !.op = "get_item",
                                                  !.item_id = item_id]]
    /\ ret' = [ret EXCEPT ![t] = get_item(items, item_id)]
    /\ old' = [old EXCEPT ![t] = NoItem]
    /\ torn' = [torn EXCEPT ![t] = ~Consistent(items, price_index, quantity_index)]
    /\ mutSince' = [mutSince EXCEPT ![t] = FALSE]
    /\ UNCHANGED <<iters, guarded, cache, recency, pc, lastUpsert>>

LenCall(t) ==
    /\ pc[t] = "idle"
    /\ LockAvailable(lock, t)
    /\ lock' = release(acquire(lock, t))
    /\ call' = [call EXCEPT ![t] = [NoCall EXCEPT !.op = "__len__"]]
    /\ ret' = [ret EXCEPT ![t] = Ok(Cardinality(DOMAIN items))]
    /\ old' = [old EXCEPT ![t] = NoItem]
    /\ torn' = [torn EXCEPT ![t] = ~Consistent(items, price_index, quantity_index)]
    /\ mutSince' = [mutSince EXCEPT ![t] = FALSE]
    /\ UNCHANGED <<iters, guarded, cache, recency, pc, lastUpsert>>

\* the (identifier, record) pairs of a dict
Pairs(its) == {<<i, its[i]>> : i \in DOMAIN its}

\* list(d.items()): the pairs in the dict's order (the insertion order, which
\* the record map of the model does not keep: any order)
Listings(its) ==
    {l \in [1 .. Cardinality(DOMAIN its) -> Pairs(its)] :
        \A m, n \in DOMAIN l : m # n => l[m] # l[n]}

\* "iter(list(self._items.items()))": the copied pairs; keep says whether the
\* caller holds on to the iterator after the call
IterCall(t, keep) ==
    /\ pc[t] = "idle"
    /\ LockAvailable(lock, t)
    /\ lock' = release(acquire(lock, t))
    /\ call' = [call EXCEPT ![t] = [NoCall EXCEPT !.op = "__iter__"]]
    /\ ret' = [ret EXCEPT ![t] = OkAs("list_iterator", items)]
    /\ IF keep
       THEN \E l \in Listings(items) :
               iters' = [iters EXCEPT ![t] = <<[list |-> l, pos |-> 0]>>]
       ELSE iters' = [iters EXCEPT ![t] = NoIter]
    /\ old' = [old EXCEPT ![t] = NoItem]
    /\ torn' = [torn EXCEPT ![t] = ~Consistent(items, price_index, quantity_index)]
    /\ mutSince' = [mutSince EXCEPT ![t] = FALSE]
    /\ UNCHANGED <<guarded, cache, recency, pc, lastUpsert>>

\* the iterator walks the record map itself
IterList_LiveView(l, its) ==
    CHOOSE m \in Listings(its) : TRUE

\* the list that a list iterator walks: the copy made by __iter__
IterList(l, its) == l

\* next() on the iterator that t holds; no lock is involved
IterNext(t) ==
    /\ pc[t] = "idle"
    /\ iters[t] # NoIter
    /\ LET it == iters[t][1]
           l  == IterList(it.list, items)
       IN  IF it.pos < Len(l)
           THEN /\ ret' = [ret EXCEPT ![t] = OkAs("tuple", l[it.pos + 1])]
                /\ iters' = [iters EXCEPT ![t] = <<[it EXCEPT !.pos = @ + 1]>>]
           ELSE /\ ret' = [ret EXCEPT ![t] = Raise(StopIteration)]
                /\ iters' = [iters EXCEPT ![t] = NoIter]
    /\ call' = [call EXCEPT ![t] = [NoCall EXCEPT !.op = "__next__"]]
    /\ old' = [old EXCEPT ![t] = NoItem]
    /\ torn' = [torn EXCEPT ![t] = FALSE]
    /\ mutSince' = [mutSince EXCEPT ![t] = FALSE]
    /\ UNCHANGED <<service, pc, lastUpsert>>

(***************************************************************************)
(* The cached queries.  The lru_cache wrapper looks the signature up, on a *)
(* miss calls the decorated method (which takes the lock), and then stores *)
(* the result unless the signature has been stored meanwhile.  The wrapper *)
(* itself runs outside the service lock.                                   *)
(***************************************************************************)
QueryCall(t, op, low, high, k) ==
    /\ pc[t] = "idle"
    /\ LET c == [NoCall EXCEPT !.op = op, !.low = low, !.high = high, !.k = k,
                               !.self = self]
       IN  /\ call' = [call EXCEPT ![t] = c]
           /\ IF Sig(c) \in DOMAIN cache
              THEN /\ ret' = [ret EXCEPT ![t] = OkAs(KindOf(op), cache[Sig(c)])]
                   /\ recency' = Touch(recency, Sig(c))
                   /\ pc' = pc
              ELSE /\ ret' = [ret EXCEPT ![t] = OkNone]
                   /\ recency' = recency
                   /\ pc' = [pc EXCEPT ![t] = "query_compute"]
    /\ old' = [old EXCEPT ![t] = NoItem]
    /\ torn' = [torn EXCEPT ![t] = FALSE]
    /\ mutSince' = [mutSince EXCEPT ![t] = MutationInProgress]
    /\ UNCHANGED <<iters, guarded, lock, cache, lastUpsert>>

\* the decorated method: one with block
QueryCompute(t) ==
    /\ pc[t] = "query_compute"
    /\ LockAvailable(lock, t)
    /\ lock' = release(acquire(lock, t))
    /\ LET r == QueryBody(items, price_index, quantity_index, call[t])
       IN  /\ pc' = [pc EXCEPT ![t] = IF r.exc = "" THEN "query_store" ELSE "idle"]
           /\ ret' = [ret EXCEPT ![t] = r]
    /\ torn' = [torn EXCEPT ![t] = ~Consistent(items, price_index, quantity_index)]
    /\ UNCHANGED <<iters, guarded, cache, recency, call, old, mutSince, lastUpsert>>

\* the wrapper after the call: nothing to do if the signature has been
\* stored meanwhile; a full cache drops a signature for the new one
QueryStore(t) ==
    /\ pc[t] = "query_store"
    /\ LET sig == Sig(call[t])
           op  == call[t].op
       IN  IF sig \in DOMAIN cache
           THEN UNCHANGED <<cache, recency>>
           ELSE IF Len(recency[op]) >= MaxSize(op)
                THEN /\ cache' = DictSet(DictPop(cache, Evicted(recency, op)),
                                         sig, ret[t].val[1])
                     /\ recency' = [recency EXCEPT ![op] =
                            SelectSeq(@, LAMBDA x : x # Evicted(recency, op)) \o <<sig>>]
                ELSE /\ cache' = DictSet(cache, sig, ret[t].val[1])
                     /\ recency' = [recency EXCEPT ![op] = @ \o <<sig>>]
    /\ pc' = [pc EXCEPT ![t] = "idle"]
    /\ UNCHANGED <<iters, guarded, lock, call, old, ret, torn, mutSince, lastUpsert>>

(***************************************************************************)
(* Specifications.  D gives the argument values the callers draw from.     *)
(***************************************************************************)
IsMutator(op) == op \in {"upsert_item", "remove_item"}

\* lastCleared: what the latest mutation dropped from the caches, kept while
\* the caller's next call, if a query, runs (followed only where D.track)
\* pre: set by the step that takes the lock for a mutation, dropped by the
\* step that ends the mutation
\* iterBase: set by __iter__, dropped with the iterator
\* self, other: a call is made on the instance self and leaves the instance
\* it is made on
\* epoch: for each signature, the first result returned to a call that ran
\* while no mutation did, since the latest mutation (followed only where
\* D.lru)
Track(t, D) ==
    /\ UNCHANGED <<self, other>>
    /\ epoch' =
           IF ~D.lru THEN epoch
           ELSE IF MutationInProgress' THEN EmptyDict
           ELSE IF /\ pc'[t] = "idle" /\ call'[t].op \in QueryNames
                   /\ ret'[t].exc = "" /\ ~mutSince'[t]
                   /\ Sig(call'[t]) \notin DOMAIN epoch
                THEN DictSet(epoch, Sig(call'[t]), ret'[t].val[1])
                ELSE epoch
    /\ lastCleared' =
           IF ~D.track THEN lastCleared
           ELSE IF pc[t] \in {"upsert_clear", "remove_clear"} THEN cache
           ELSE IF pc[t] = "idle" /\ ~(IsMutator(call[t].op) /\ call'[t].op \in QueryNames)
                THEN EmptyDict
                ELSE lastCleared
    /\ pre' =
           IF pc[t] = "upsert_enter" \/ (pc[t] = "idle" /\ pc'[t] = "remove_pop_price")
           THEN [pre EXCEPT ![t] = <<[items |-> items, price_index |-> price_index,
                                      quantity_index |-> quantity_index,
                                      cache |-> cache]>>]
           ELSE IF pc[t] \in {"upsert_clear", "remove_clear"}
                THEN [pre EXCEPT ![t] = <<>>]
                ELSE pre
    /\ iterBase' =
           IF iters'[t] = NoIter THEN [iterBase EXCEPT ![t] = <<>>]
           ELSE IF pc[t] = "idle" /\ call'[t].op = "__iter__"
                THEN [iterBase EXCEPT ![t] = <<items>>]
                ELSE iterBase

\* the calls the model follows: a query that misses the caches is started
\* only while fewer than MaxCached results are cached, unless D.lru
Explored(D, sig) ==
    D.lru \/ sig \in DOMAIN cache \/ Cardinality(DOMAIN cache) < MaxCached

Step(t, D) ==
    \/ /\ \E i \in D.ids, pq \in D.pairs, m \in D.metas :
             UpsertCall(t, i, pq[1], pq[2], m)
       /\ Track(t, D)
    \/ UpsertEnter(t) /\ Track(t, D)
    \/ UpsertPopPrice(t) /\ Track(t, D)
    \/ UpsertPopQty(t) /\ Track(t, D)
    \/ UpsertStore(t) /\ Track(t, D)
    \/ UpsertInsPrice(t) /\ Track(t, D)
    \/ UpsertInsQty(t) /\ Track(t, D)
    \/ UpsertClear(t) /\ Track(t, D)
    \/ (\E i \in D.ids : RemoveEnter(t, i)) /\ Track(t, D)
    \/ RemovePopPrice(t) /\ Track(t, D)
    \/ RemovePopQty(t) /\ Track(t, D)
    \/ RemoveClear(t) /\ Track(t, D)
    \/ (\E i \in D.gets : GetItem(t, i)) /\ Track(t, D)
    \/ D.reads /\ LenCall(t) /\ Track(t, D)
    \/ D.reads /\ IterCall(t, D.keep) /\ Track(t, D)
    \/ /\ \E op \in RangeQueries \cap D.ops, lo \in D.lows, hi \in D.highs :
             Explored(D, <<op, lo, hi, 0, self>>) /\ QueryCall(t, op, lo, hi, 0)
       /\ Track(t, D)
    \/ /\ \E op \in TopKQueries \cap D.ops, k \in D.ks :
             Explored(D, <<op, 0, 0, k, self>>) /\ QueryCall(t, op, 0, 0, k)
       /\ Track(t, D)
    \/ QueryCompute(t) /\ Track(t, D)
    \/ QueryStore(t) /\ Track(t, D)

\* Threads calling the service concurrently: one that only upserts and
\* removes, one that calls everything.
ConcPairs == {<<0, 1>>, <<1, 0>>}

MutArgs == [ids |-> SmallIds, pairs |-> ConcPairs, metas |-> {None}, keep |-> FALSE,
            gets |-> {}, reads |-> FALSE, lows |-> {}, highs |-> {}, ks |-> {},
            track |-> FALSE, lru |-> FALSE, ops |-> QueryNames]

ConcArgs == [ids |-> SmallIds, pairs |-> ConcPairs, metas |-> {None}, keep |-> FALSE,
             gets |-> SmallIds, reads |-> TRUE, lows |-> {0}, highs |-> {0},
             ks |-> {1}, track |-> FALSE, lru |-> FALSE, ops |-> QueryNames]

ArgsOf(t) == IF t = SeqThread THEN ConcArgs ELSE MutArgs

Next == \E t \in Threads : Step(t, ArgsOf(t))

Spec == Init /\ [][Next]_vars

\* One caller, invalid arguments included.
SeqArgs == [ids |-> SmallIds, pairs |-> InPrices \X InQtys, metas |-> {None}, keep |-> FALSE,
            gets |-> SmallIds, reads |-> TRUE,
            lows |-> Prices, highs |-> Prices, ks |-> {1, 2}, track |-> TRUE, lru |-> FALSE, ops |-> QueryNames]

NextSeq == Step(SeqThread, SeqArgs)

SpecSeq == Init /\ [][NextSeq]_vars

\* One caller, three identifiers and the full argument ranges of the queries.
QueryArgs == [ids |-> ItemIds, pairs |-> Prices \X Qtys, metas |-> {None}, keep |-> FALSE,
              gets |-> ItemIds, reads |-> TRUE,
              lows |-> Prices, highs |-> Prices, ks |-> Ks, track |-> FALSE, lru |-> FALSE, ops |-> QueryNames]

NextQuery == Step(SeqThread, QueryArgs)

SpecQuery == Init /\ [][NextQuery]_vars

\* Concurrent callers passing every kind of metadata.
MetaMutArgs == [ids |-> {"A"}, pairs |-> ConcPairs, metas |-> Metadatas, keep |-> FALSE,
                gets |-> {}, reads |-> FALSE, lows |-> {}, highs |-> {}, ks |-> {},
                track |-> FALSE, lru |-> FALSE, ops |-> QueryNames]

MetaArgs == [ids |-> SmallIds, pairs |-> {<<0, 1>>}, metas |-> Metadatas, keep |-> FALSE,
             gets |-> SmallIds, reads |-> TRUE, lows |-> {0}, highs |-> {0},
             ks |-> {1}, track |-> FALSE, lru |-> FALSE, ops |-> QueryNames]

MetaArgsOf(t) == IF t = SeqThread THEN MetaArgs ELSE MetaMutArgs

NextMeta == \E t \in Threads : Step(t, MetaArgsOf(t))

SpecMeta == Init /\ [][NextMeta]_vars

\* Concurrent callers, one of which keeps the iterators it obtains and
\* draws from them between its other calls.
IterMutArgs == [ids |-> {"B"}, pairs |-> {<<0, 1>>}, metas |-> {None},
                keep |-> FALSE, gets |-> {}, reads |-> FALSE,
                lows |-> {}, highs |-> {}, ks |-> {}, track |-> FALSE, lru |-> FALSE, ops |-> QueryNames]

IterArgs == [ids |-> {"A"}, pairs |-> ConcPairs, metas |-> {None},
             keep |-> TRUE, gets |-> {"A"}, reads |-> TRUE,
             lows |-> {0}, highs |-> {0}, ks |-> {1}, track |-> FALSE, lru |-> FALSE, ops |-> QueryNames]

IterArgsOf(t) == IF t = SeqThread THEN IterArgs ELSE IterMutArgs

NextIter ==
    \/ \E t \in Threads : Step(t, IterArgsOf(t))
    \/ \E t \in Threads : IterNext(t) /\ Track(t, IterArgsOf(t))

SpecIter == Init /\ [][NextIter]_vars

\* Such callers, on one identifier, under fair scheduling.  A thread inside a with block, or
\* between the steps of the lru_cache wrapper, is not waiting for anything
\* and keeps running; a thread waiting for the lock obtains it if the lock
\* is free again and again (no starvation).  Making a call at all is left
\* to the caller.
Running(t, D) ==
    \/ UpsertPopPrice(t) /\ Track(t, D)
    \/ UpsertPopQty(t) /\ Track(t, D)
    \/ UpsertStore(t) /\ Track(t, D)
    \/ UpsertInsPrice(t) /\ Track(t, D)
    \/ UpsertInsQty(t) /\ Track(t, D)
    \/ UpsertClear(t) /\ Track(t, D)
    \/ RemovePopPrice(t) /\ Track(t, D)
    \/ RemovePopQty(t) /\ Track(t, D)
    \/ RemoveClear(t) /\ Track(t, D)
    \/ QueryStore(t) /\ Track(t, D)

Acquiring(t, D) ==
    \/ UpsertEnter(t) /\ Track(t, D)
    \/ QueryCompute(t) /\ Track(t, D)

FairMutArgs == [IterMutArgs EXCEPT !.ids = {"A"}]

FairArgs == [IterArgs EXCEPT !.pairs = {<<1, 0>>}]

FairArgsOf(t) == IF t = SeqThread THEN FairArgs ELSE FairMutArgs

NextFair ==
    \/ \E t \in Threads : Step(t, FairArgsOf(t))
    \/ \E t \in Threads : IterNext(t) /\ Track(t, FairArgsOf(t))

FairScheduling ==
    \A t \in Threads :
        /\ WF_vars(Running(t, FairArgsOf(t)))
        /\ SF_vars(Acquiring(t, FairArgsOf(t)))

SpecFair == Init /\ [][NextFair]_vars /\ FairScheduling

\* Concurrent callers of which one issues more distinct queries than the
\* caches hold.
LruMutArgs == [ids |-> {"A"}, pairs |-> {<<0, 1>>}, metas |-> {None},
               keep |-> FALSE, gets |-> {}, reads |-> FALSE,
               lows |-> {}, highs |-> {}, ks |-> {}, track |-> FALSE, lru |-> TRUE,
               ops |-> {}]

LruArgs == [ids |-> {}, pairs |-> {}, metas |-> {None},
            keep |-> FALSE, gets |-> {"A"}, reads |-> TRUE,
            lows |-> Prices, highs |-> Prices, ks |-> {1, 2},
            track |-> FALSE, lru |-> TRUE,
            ops |-> {"range_query_quantity", "top_k_by_price"}]

LruArgsOf(t) == IF t = SeqThread THEN LruArgs ELSE LruMutArgs

NextLru == \E t \in Threads : Step(t, LruArgsOf(t))

SpecLru == Init /\ [][NextLru]_vars

\* Callers of two instances.  The record map, the indices and the lock of
\* the instance that the callers are using are items, price_index,
\* quantity_index and lock; those of the other instance are kept in other.
\* The callers turn to the other instance when none of them is inside a
\* call.  The caches belong to the class and stay.
Switch ==
    /\ \A t \in Threads : pc[t] = "idle"
    /\ self' = Other(self)
    /\ items' = other.items
    /\ price_index' = other.price_index
    /\ quantity_index' = other.quantity_index
    /\ lock' = other.lock
    /\ other' = [items |-> items, price_index |-> price_index,
                 quantity_index |-> quantity_index, lock |-> lock]
    /\ UNCHANGED <<cache, recency, frames, torn, mutSince, lastUpsert, lastCleared,
                   pre, iterBase, epoch>>

TwoMutArgs == LruMutArgs

TwoArgs == [ids |-> {"A"}, pairs |-> {<<0, 1>>}, metas |-> {None},
            keep |-> FALSE, gets |-> {"A"}, reads |-> TRUE,
            lows |-> {0}, highs |-> {0}, ks |-> {1},
            track |-> FALSE, lru |-> TRUE,
            ops |-> {"range_query_quantity", "top_k_by_price"}]

TwoArgsOf(t) == IF t = SeqThread THEN TwoArgs ELSE TwoMutArgs

NextTwo ==
    \/ \E t \in Threads : Step(t, TwoArgsOf(t))
    \/ Switch

SpecTwo == Init /\ [][NextTwo]_vars

(***************************************************************************)
(* Properties                                                              *)
(***************************************************************************)
NoMutationInFlight == ~MutationInProgress
AllIdle == \A t \in Threads : pc[t] = "idle"

EntriesOf(index, i) == {n \in 1 .. Len(index) : index[n][2] = i}

ExactlyOneEntry(index, i, key) ==
    /\ Cardinality(EntriesOf(index, i)) = 1
    /\ \A n \in EntriesOf(index, i) : index[n][1] = key

\* C1: once the upsert_item and remove_item calls made so far have finished
\* their work on the record map and the indices, every identifier in the
\* record map has exactly one entry in the price index, keyed by its current
\* price, and exactly one in the quantity index, keyed by its current qty.
C1_IndexMatchesStore ==
    NoMutationInFlight =>
        \A i \in DOMAIN items :
            /\ ExactlyOneEntry(price_index, i, items[i].price)
            /\ ExactlyOneEntry(quantity_index, i, items[i].qty)

\* both identifiers are stored with different prices and quantities after
\* upserts of both threads, and a remove_item has failed
C1_Witness ==
    /\ AllIdle
    /\ DOMAIN items = SmallIds
    /\ items["A"].price # items["B"].price
    /\ items["A"].qty # items["B"].qty
    /\ call[SeqThread].op = "remove_item" /\ ret[SeqThread].exc = ItemNotFoundError
    /\ \E t \in Threads \ {SeqThread} : call[t].op = "upsert_item"

Returned(t) == pc[t] = "idle" /\ call[t].op \in QueryNames

\* the result of the query of call c on the current record map and indices
Direct(c) == QueryBody(items, price_index, quantity_index, c)

\* C2: with a single caller, every range and top-K query returns the result
\* computed from the record map and indices as they are when it returns, in
\* particular right after a mutation that followed a cached call of the
\* same query with the same arguments.
C2_FreshAfterMutation ==
    Returned(SeqThread) => ret[SeqThread] = Direct(call[SeqThread])

\* the query was cached with another result when the mutation just before
\* it cleared the caches
C2_Witness ==
    /\ Returned(SeqThread)
    /\ Sig(call[SeqThread]) \in DOMAIN lastCleared
    /\ lastCleared[Sig(call[SeqThread])] # ret[SeqThread].val[1]
    /\ ret[SeqThread] = Direct(call[SeqThread])

\* C3: a range or top-K query invoked when no mutation is in progress, and
\* returning before the record map or an index is written again, returns
\* the result for that state, whatever another thread's query was doing
\* while the mutation before it ran.
C3_NoStaleResult ==
    \A t \in Threads :
        (Returned(t) /\ ~mutSince[t]) => ret[t] = Direct(call[t])

\* C4: when all calls have completed, get_item of every identifier still
\* present succeeds with the price and qty of the latest upsert_item of it
\* in lock order, and each index holds exactly the entries of the present
\* identifiers.
C4_LastUpsertWins ==
    AllIdle =>
        /\ \A i \in DOMAIN items :
              /\ i \in DOMAIN lastUpsert
              /\ get_item(items, i).exc = ""
              /\ get_item(items, i).val[1].price = lastUpsert[i].price
              /\ get_item(items, i).val[1].qty = lastUpsert[i].qty
        /\ Consistent(items, price_index, quantity_index)

\* both threads have completed an upsert_item, one identifier was removed
C4_Witness ==
    /\ AllIdle
    /\ \A t \in Threads : call[t].op = "upsert_item" /\ ret[t].exc = ""
    /\ DOMAIN items = {"B"}
    /\ items["B"].price = 1

\* C5: no get_item, range query, top-K query, len or iter reads the record
\* map or an index while a mutation of another thread is partly applied.
C5_NoTornRead == \A t \in Threads : ~torn[t]

\* a query has read the guarded state and waits to store its result while
\* the other thread is in the middle of an upsert_item
C5_Witness ==
    \E t, u \in Threads :
        /\ pc[t] = "query_store"
        /\ pc[u] = "upsert_ins_price"
        /\ ~Consistent(items, price_index, quantity_index)

\* C6: range_query_quantity(low, high) is the sum of qty, and
\* range_query_value(low, high) the sum of price*qty, over exactly the
\* records with low <= price <= high, as the reference Inventory computes
\* them, for every identifier string.
C6_RangeMatchesReference ==
    LET c == call[SeqThread]
    IN  /\ (Returned(SeqThread) /\ c.op = "range_query_quantity") =>
              ret[SeqThread] = Ok(Inventory_range_query_quantity(items, c.low, c.high))
        /\ (Returned(SeqThread) /\ c.op = "range_query_value") =>
              ret[SeqThread] = Ok(Inventory_range_query_value(items, c.low, c.high))

KeyOf(it, op) == IF op = "top_k_by_price" THEN it.price ELSE it.qty

Min(a, b) == IF a < b THEN a ELSE b

\* res lists the min(k, size) records with the largest (key, identifier),
\* largest first
IsTopK(res, its, op, k) ==
    LET n == Len(res)
        entry(i) == <<KeyOf(res[i][2], op), res[i][1]>>
    IN  /\ n = Min(k, Cardinality(DOMAIN its))
        /\ \A i \in 1 .. n : res[i][1] \in DOMAIN its /\ res[i][2] = its[res[i][1]]
        /\ \A i, j \in 1 .. n : i < j => TupleLess(entry(j), entry(i))
        /\ \A o \in DOMAIN its :
              (\A i \in 1 .. n : res[i][1] # o) =>
                  \A i \in 1 .. n : TupleLess(<<KeyOf(its[o], op), o>>, entry(i))

\* C7: for k >= 1, top_k_by_price(k) and top_k_by_quantity(k) return
\* min(k, size) (identifier, record) pairs in descending (key, identifier)
\* order, none of the records left out ranking above one returned.
C7_TopKDescending ==
    (Returned(SeqThread) /\ call[SeqThread].op \in TopKQueries /\ call[SeqThread].k >= 1) =>
        /\ ret[SeqThread].exc = ""
        /\ IsTopK(ret[SeqThread].val[1], items, call[SeqThread].op, call[SeqThread].k)

\* three records, two of equal price, and the top two by price returned
C7_Witness ==
    /\ Returned(SeqThread)
    /\ call[SeqThread].op = "top_k_by_price" /\ call[SeqThread].k = 2
    /\ DOMAIN items = ItemIds
    /\ items["A"].price = items["B"].price
    /\ items["A"].price > items["chr(0x10ffff)A"].price
    /\ Len(ret[SeqThread].val[1]) = 2

\* C8: for k <= 0, top_k_by_price(k) and top_k_by_quantity(k) return an
\* empty sequence.
C8_NonPositiveKEmpty ==
    (Returned(SeqThread) /\ call[SeqThread].op \in TopKQueries /\ call[SeqThread].k <= 0) =>
        ret[SeqThread] = OkAs("list", <<>>)

\* thread t makes a call in this step
Calls(t) == pc[t] = "idle" /\ <<pc[t], call[t], ret[t]>> # <<pc'[t], call'[t], ret'[t]>>

\* C9: upsert_item with price < 0 or qty < 0 raises InvalidItemError and
\* leaves the record map, both indices (hence the size) and the query
\* caches as they were.
C9_InvalidUpsertNoEffect ==
    [][(/\ Calls(SeqThread)
        /\ call'[SeqThread].op = "upsert_item"
        /\ (call'[SeqThread].price < 0 \/ call'[SeqThread].qty < 0))
       => /\ pc'[SeqThread] = "idle"
          /\ ret'[SeqThread] = Raise(InvalidItemError)
          /\ UNCHANGED <<items, price_index, quantity_index, cache>>]_vars

\* an upsert_item of a stored identifier with a negative qty has failed
\* while a query result was cached
C9_Witness ==
    /\ pc[SeqThread] = "idle"
    /\ call[SeqThread].op = "upsert_item"
    /\ call[SeqThread].qty < 0 /\ call[SeqThread].price >= 0
    /\ call[SeqThread].item_id \in DOMAIN items
    /\ ret[SeqThread].exc = InvalidItemError
    /\ DOMAIN cache # {}

\* C10: get_item and remove_item of an absent identifier raise
\* ItemNotFoundError, leave the record map and both indices (hence the
\* size) unchanged and leave the lock released.
C10_NotFoundNoEffect ==
    [][\A t \in Threads :
         (/\ Calls(t)
          /\ call'[t].op \in {"get_item", "remove_item"}
          /\ call'[t].item_id \notin DOMAIN items)
         => /\ pc'[t] = "idle"
            /\ ret'[t] = Raise(ItemNotFoundError)
            /\ UNCHANGED <<items, price_index, quantity_index>>
            /\ lock' = Unlocked]_vars

\* a get_item and a remove_item of identifiers absent from a non-empty
\* store have failed
C10_Witness ==
    \E t, u \in Threads :
        /\ pc[t] = "idle" /\ call[t].op = "get_item"
        /\ pc[u] = "idle" /\ call[u].op = "remove_item"
        /\ ret[t].exc = ItemNotFoundError /\ ret[u].exc = ItemNotFoundError
        /\ call[t].item_id \notin DOMAIN items /\ call[u].item_id \notin DOMAIN items
        /\ items # EmptyDict
        /\ lock = Unlocked

\* the record that upsert_item(id, a.price, a.qty, a.metadata) is to store:
\* the metadata passed, the empty mapping when it was omitted
Upserted(a) ==
    [price |-> a.price, qty |-> a.qty,
     metadata |-> IF a.metadata = None THEN EmptyMeta ELSE a.metadata]

\* C11: get_item(id), called when the latest mutation of id is a successful
\* upsert_item(id, p, q, m), returns the record with price p, qty q and
\* metadata m, the empty mapping when m was omitted.
C11_GetAfterUpsert ==
    [][\A t \in Threads :
         (/\ Calls(t)
          /\ call'[t].op = "get_item"
          /\ call'[t].item_id \in DOMAIN lastUpsert)
         => ret'[t] = OkAs("Item", Upserted(lastUpsert[call'[t].item_id]))]_vars

\* get_item has returned an empty mapping for an identifier whose latest
\* upsert_item, by the other thread, omitted the metadata, and a non-empty
\* mapping is stored for the other identifier
C11_Witness ==
    /\ pc[SeqThread] = "idle" /\ call[SeqThread].op = "get_item"
    /\ call[SeqThread].item_id = "A"
    /\ "A" \in DOMAIN lastUpsert /\ lastUpsert["A"].metadata = None
    /\ ret[SeqThread] = OkAs("Item", [price |-> lastUpsert["A"].price,
                                      qty |-> lastUpsert["A"].qty,
                                      metadata |-> EmptyMeta])
    /\ \E t \in Threads \ {SeqThread} : call[t].op = "upsert_item" /\ pc[t] = "idle"
    /\ "B" \in DOMAIN items /\ items["B"].metadata \notin {None, EmptyMeta}

\* every range and top-K call with arguments of the model's ranges
QueryCalls ==
    {[NoCall EXCEPT !.op = op, !.low = lo, !.high = hi] :
        op \in RangeQueries, lo \in Prices, hi \in Prices}
    \cup {[NoCall EXCEPT !.op = op, !.k = k] : op \in TopKQueries, k \in Ks}

\* what the call c returns when it is made with caches ch over its, pidx, qidx
WouldReturn(ch, its, pidx, qidx, c) ==
    IF Sig(c) \in DOMAIN ch THEN OkAs(KindOf(c.op), ch[Sig(c)]) ELSE QueryBody(its, pidx, qidx, c)

\* thread t completes an upsert_item in this step
UpsertReturns(t) == pc[t] = "upsert_clear" /\ pc'[t] = "idle"

\* the upsert_item that t is executing found the identifier stored with the
\* price, qty and metadata it passes
SameAsStored(t) ==
    /\ old[t] # NoItem
    /\ old[t][1].price = call[t].price
    /\ old[t][1].qty = call[t].qty
    /\ old[t][1].metadata = Upserted(call[t]).metadata

\* C12: an upsert_item of a present identifier with the price, qty and
\* metadata it already has leaves both indices (contents and order) and the
\* store as they were, and get_item and every range and top-K call return
\* after it what they returned before it.
C12_ReupsertChangesNothing ==
    [][\A t \in Threads :
         (UpsertReturns(t) /\ SameAsStored(t)) =>
            LET p == pre[t][1]
            IN  /\ price_index' = p.price_index
                /\ quantity_index' = p.quantity_index
                /\ Cardinality(DOMAIN items') = Cardinality(DOMAIN p.items)
                /\ \A i \in ItemIds : get_item(items', i) = get_item(p.items, i)
                /\ \A c \in QueryCalls :
                      WouldReturn(cache', items', price_index', quantity_index', c)
                      = WouldReturn(p.cache, p.items, p.price_index, p.quantity_index, c)]_vars

\* thread t completes a remove_item in this step
RemoveReturns(t) == pc[t] = "remove_clear" /\ pc'[t] = "idle"

\* the result r of the query call c over the record map its involves present
\* identifiers only: a top-K result lists none that is absent, and a range
\* sum is 0 when no present record has its price in the range
OnlyPresent(r, c, its) ==
    /\ r.exc = ""
    /\ c.op \in TopKQueries =>
          \A n \in 1 .. Len(r.val[1]) : r.val[1][n][1] \in DOMAIN its
    /\ (c.op \in RangeQueries /\ InRange(its, c.low, c.high) = {}) => r.val[1] = 0

\* C13: a successful remove_item(id) leaves no record and no index entry of
\* id and one record and one entry per index fewer; as long as id is absent,
\* get_item(id) raises ItemNotFoundError and a range or top-K query invoked
\* with no mutation in progress, and returning before the next one, neither
\* counts nor returns it.
C13_RemovedIsGone ==
    [][\A t \in Threads :
         /\ RemoveReturns(t) =>
               /\ call[t].item_id \in DOMAIN pre[t][1].items
               /\ call[t].item_id \notin DOMAIN items'
               /\ EntriesOf(price_index', call[t].item_id) = {}
               /\ EntriesOf(quantity_index', call[t].item_id) = {}
               /\ Cardinality(DOMAIN items') = Cardinality(DOMAIN pre[t][1].items) - 1
               /\ Len(price_index') = Len(pre[t][1].price_index) - 1
               /\ Len(quantity_index') = Len(pre[t][1].quantity_index) - 1
         /\ (Calls(t) /\ call'[t].op = "get_item"
                      /\ call'[t].item_id \notin DOMAIN items)
               => ret'[t] = Raise(ItemNotFoundError)
         /\ (pc'[t] = "idle" /\ call'[t].op \in QueryNames /\ ~mutSince'[t])
               => OnlyPresent(ret'[t], call'[t], items')]_vars

\* l lists each pair of the record map its exactly once
ListsExactly(l, its) ==
    /\ Len(l) = Cardinality(DOMAIN its)
    /\ \A i \in DOMAIN its : \E n \in 1 .. Len(l) : l[n] = <<i, its[i]>>

\* C14: the sequence that an iterator obtained from the service walks holds
\* exactly one pair per identifier present when iter was called, with the
\* record it then had, whatever upsert_item and remove_item calls the
\* holder or another thread has made since; every pair drawn from it is one
\* of these.
C14_IterIsSnapshot ==
    \A t \in Threads :
        iters[t] # NoIter =>
            /\ ListsExactly(IterList(iters[t][1].list, items), iterBase[t][1])
            /\ (call[t].op = "__next__" /\ ret[t].exc = "") =>
                  /\ ret[t].val[1][1] \in DOMAIN iterBase[t][1]
                  /\ ret[t].val[1][2] = iterBase[t][1][ret[t].val[1][1]]

\* the holder has drawn the pair of an identifier whose record was replaced
\* and the pair of one that was removed after iter was called; the iterator
\* is not exhausted
C14_Witness ==
    /\ iters[SeqThread] # NoIter
    /\ DOMAIN iterBase[SeqThread][1] = SmallIds
    /\ iters[SeqThread][1].pos = 1
    /\ call[SeqThread].op = "__next__" /\ ret[SeqThread].exc = ""
    /\ DOMAIN items = {ret[SeqThread].val[1][1]}
    /\ items[ret[SeqThread].val[1][1]] # ret[SeqThread].val[1][2]

\* C15: under fair scheduling every upsert_item and query that was invoked
\* returns or raises, and the lock is free again and again for the calls
\* that take it at once (get_item, remove_item, len, iter); no thread that
\* is outside the service owns the lock, whether its last call returned or
\* raised ItemNotFoundError or InvalidItemError, and whether or not it holds
\* an iterator; the calls a thread makes while it holds an iterator return
\* as well.
C15_NoIndefiniteSuspension ==
    /\ \A t \in Threads : (pc[t] # "idle") ~> (pc[t] = "idle")
    /\ []<>(lock = Unlocked)
    /\ \A t \in Threads :
          (pc[t] # "idle" /\ iters[t] # NoIter) ~> (pc[t] = "idle" /\ iters[t] # NoIter)
    /\ [](\A t \in Threads : pc[t] = "idle" => lock.owner # t)
    /\ [](AllIdle => lock = Unlocked)

\* a thread that holds an iterator has called upsert_item and waits for
\* the lock, which the other thread owns in the middle of its upsert_item
C15_Witness ==
    /\ pc[SeqThread] = "upsert_enter"
    /\ iters[SeqThread] # NoIter
    /\ \E t \in Threads \ {SeqThread} : lock.owner = t /\ pc[t] = "upsert_ins_qty"

\* thread t looks a signature up in the caches, stores a computed result
\* in them, clears them, in this step
CacheLookup(t) == Calls(t) /\ call'[t].op \in QueryNames
CacheInsert(t) == pc[t] = "query_store" /\ pc'[t] = "idle"
CacheClear(t) == pc[t] \in {"upsert_clear", "remove_clear"} /\ pc'[t] = "idle"

\* C16: a thread looks up, fills and clears the query caches only while it
\* holds the service lock.
C16_CacheUnderLock ==
    [][\A t \in Threads :
         (CacheLookup(t) \/ CacheInsert(t) \/ CacheClear(t)) => lock.owner = t]_vars

StrictlyAscending(index) ==
    \A n \in 1 .. Len(index) - 1 : TupleLess(index[n], index[n + 1])

NoOrphan(index, its) == \A n \in 1 .. Len(index) : index[n][2] \in DOMAIN its

\* C17: when no upsert_item or remove_item is under way, each index is
\* strictly ascending in (key, identifier), so without duplicates, every
\* identifier in it is in the record map, and it is as long as the record
\* map is large.
C17_SortedNoOrphan ==
    NoMutationInFlight =>
        /\ StrictlyAscending(price_index) /\ StrictlyAscending(quantity_index)
        /\ NoOrphan(price_index, items) /\ NoOrphan(quantity_index, items)
        /\ Len(price_index) = Cardinality(DOMAIN items)
        /\ Len(quantity_index) = Cardinality(DOMAIN items)

\* after an upsert_item, three entries per index, with two equal prices and
\* two equal quantities ordered by identifier, the orders of the
\* identifiers in the two indices differing
C17_Witness ==
    /\ pc[SeqThread] = "idle" /\ call[SeqThread].op = "upsert_item"
    /\ Len(price_index) = 3 /\ Len(quantity_index) = 3
    /\ price_index[2][1] = price_index[3][1]
    /\ quantity_index[1][1] = quantity_index[2][1]
    /\ price_index[1][2] # quantity_index[1][2]
    /\ price_index[3][2] = "chr(0x10ffff)A"

Holds(index, key) == \E n \in 1 .. Len(index) : index[n] = key

AtMostOneEntryPerId(index) ==
    \A m, n \in 1 .. Len(index) : index[m][2] = index[n][2] => m = n

\* the step taken is the step of thread t at the label
Takes(t, label) == pc[t] = label /\ pc'[t] # label

\* the upsert of thread t, on an identifier that was present, pops the old
\* entry of the index
PopFinds(t, label, index, indexAfter, oldKey) ==
    Takes(t, label) =>
        /\ Holds(index, <<oldKey, call[t].item_id>>)
        /\ Len(indexAfter) = Len(index) - 1
        /\ EntriesOf(indexAfter, call[t].item_id) = {}

\* the new entry is inserted into an index without an entry of the identifier
InsertsAfterPop(t, label, index) ==
    Takes(t, label) => EntriesOf(index, call[t].item_id) = {}

\* C18: every step of an upsert_item on a present identifier: the pop finds
\* the entry with the old price (old qty) and leaves no entry of the
\* identifier, the insertions come when the index has no entry of the
\* identifier, no index ever holds two entries of one identifier, and when
\* the call returns with a changed price (qty) the index has no entry with
\* the old one.
C18_RemoveBeforeInsert ==
    [][ /\ AtMostOneEntryPerId(price_index') /\ AtMostOneEntryPerId(quantity_index')
        /\ \A t \in Threads :
              /\ PopFinds(t, "upsert_pop_price", price_index, price_index',
                          IF old[t] = NoItem THEN 0 ELSE old[t][1].price)
              /\ PopFinds(t, "upsert_pop_qty", quantity_index, quantity_index',
                          IF old[t] = NoItem THEN 0 ELSE old[t][1].qty)
              /\ Takes(t, "upsert_pop_price") => old[t] # NoItem
              /\ InsertsAfterPop(t, "upsert_ins_price", price_index)
              /\ InsertsAfterPop(t, "upsert_ins_qty", quantity_index)
              /\ (UpsertReturns(t) /\ old[t] # NoItem) =>
                    /\ old[t][1].price # call[t].price =>
                          ~Holds(price_index', <<old[t][1].price, call[t].item_id>>)
                    /\ old[t][1].qty # call[t].qty =>
                          ~Holds(quantity_index', <<old[t][1].qty, call[t].item_id>>)
                    /\ Holds(price_index', <<call[t].price, call[t].item_id>>)
                    /\ Holds(quantity_index', <<call[t].qty, call[t].item_id>>)
      ]_vars

\* an upsert_item that changes both the price and the qty of a present
\* identifier has popped and inserted, the other identifier being present
C18_Witness ==
    \E t \in Threads :
        /\ pc[t] = "upsert_clear" /\ old[t] # NoItem
        /\ old[t][1].price # call[t].price /\ old[t][1].qty # call[t].qty
        /\ Len(price_index) = 2

SigsOf(c, op) == {sig \in DOMAIN c : sig[1] = op}

Elements(seq) == {seq[n] : n \in 1 .. Len(seq)}

\* each cache holds at most its maxsize results, each linked once
C19_Bounded ==
    \A op \in QueryNames :
        /\ Cardinality(SigsOf(cache, op)) <= MaxSize(op)
        /\ Elements(recency[op]) = SigsOf(cache, op)
        /\ Len(recency[op]) = Cardinality(SigsOf(cache, op))

\* the step drops a signature from a cache that is not cleared
Evicts(op) ==
    /\ SigsOf(cache', op) # {}
    /\ SigsOf(cache, op) \ SigsOf(cache', op) # {}

\* C19: each cache holds at most its maxsize results; a full cache drops
\* the least recently used signature; and any two calls of a query with the
\* same arguments that run with no mutation between them return equal
\* results, whether served from the cache or computed again.
C19_EvictionKeepsResults ==
    /\ [](C19_Bounded)
    /\ [][\A op \in QueryNames :
             Evicts(op) => SigsOf(cache, op) \ SigsOf(cache', op) = {recency[op][1]}]_vars
    /\ [](\A t \in Threads :
             (Returned(t) /\ ~mutSince[t] /\ Sig(call[t]) \in DOMAIN epoch)
                 => ret[t].val[1] = epoch[Sig(call[t])])

\* the query calls on instance j
CallsOn(j) == {[c EXCEPT !.self = j] : c \in QueryCalls}

MutationLabels ==
    {"upsert_enter", "upsert_pop_price", "upsert_pop_qty", "upsert_store",
     "upsert_ins_price", "upsert_ins_qty", "upsert_clear", "remove_pop_price",
     "remove_pop_qty", "remove_clear"}

\* the step is one of an upsert_item or a remove_item
MutationStep ==
    \E t \in Threads :
        \/ \E label \in MutationLabels : Takes(t, label)
        \/ pc[t] = "idle" /\ pc'[t] = "remove_pop_price"

\* a query made on the instance in use, with no mutation of it under way,
\* has the result of that instance's record map and indices
OwnResult ==
    \A t \in Threads :
        (Returned(t) /\ call[t].self = self /\ ~mutSince[t])
            => ret[t] = Direct(call[t])

\* what the call c on the other instance returns
OtherWouldReturn(ch, c) ==
    WouldReturn(ch, other.items, other.price_index, other.quantity_index, c)

\* C20: with two instances sharing the class-level caches, a range or top-K
\* query on an instance returns the result of that instance's record map and
\* indices, and the steps of an upsert_item or remove_item on an instance
\* leave the record map, the indices and the result of every query of the
\* other instance as they were.
C20_InstancesDoNotInterfere ==
    /\ [](OwnResult)
    /\ [][MutationStep =>
            /\ other' = other
            /\ \A c \in CallsOn(Other(self)) :
                  OtherWouldReturn(cache', c) = OtherWouldReturn(cache, c)]_vars

\* the entries of an index that belong to identifiers other than i, in order
OthersOf(index, i) == SelectSeq(index, LAMBDA e : e[2] # i)

\* the records of the identifiers other than i
RecordsBut(its, i) == [j \in (DOMAIN its) \ {i} |-> its[j]]

\* the identifier of the upsert_item or remove_item a step of which t takes
MutatedId(t) == IF pc[t] = "idle" THEN call'[t].item_id ELSE call[t].item_id

\* t takes a step of an upsert_item or a remove_item
MutationStepOf(t) ==
    \/ \E label \in MutationLabels : Takes(t, label)
    \/ pc[t] = "idle" /\ pc'[t] = "remove_pop_price"

\* what belongs to the identifiers other than i is after the step as in the
\* record map its and the indices pidx, qidx
OthersAsIn(i, its, pidx, qidx) ==
    /\ RecordsBut(items', i) = RecordsBut(its, i)
    /\ OthersOf(price_index', i) = OthersOf(pidx, i)
    /\ OthersOf(quantity_index', i) = OthersOf(qidx, i)

\* the store and both indices are n larger after the step than in its
GrownBy(n, its) ==
    /\ Cardinality(DOMAIN items') = Cardinality(DOMAIN its) + n
    /\ Len(price_index') = Cardinality(DOMAIN its) + n
    /\ Len(quantity_index') = Cardinality(DOMAIN its) + n

\* C21: every step of an upsert_item(id, ...) or remove_item(id) leaves the
\* record and both index entries of every other identifier as they were;
\* when the call returns the store is one larger than when it took the lock
\* for an upsert of a new identifier, as large for an upsert of a present
\* one and one smaller for a remove; every other step (get_item, the range
\* and top-K queries, len, iter, a call that raises) leaves the record map
\* and both indices unchanged.
C21_OnlyTheIdChanges ==
    [][ /\ \A t \in Threads :
              /\ MutationStepOf(t) =>
                    OthersAsIn(MutatedId(t), items, price_index, quantity_index)
              /\ UpsertReturns(t) =>
                    /\ OthersAsIn(call[t].item_id, pre[t][1].items,
                                  pre[t][1].price_index, pre[t][1].quantity_index)
                    /\ old[t] = NoItem <=> call[t].item_id \notin DOMAIN pre[t][1].items
                    /\ GrownBy(IF old[t] = NoItem THEN 1 ELSE 0, pre[t][1].items)
              /\ RemoveReturns(t) =>
                    /\ OthersAsIn(call[t].item_id, pre[t][1].items,
                                  pre[t][1].price_index, pre[t][1].quantity_index)
                    /\ call[t].item_id \in DOMAIN pre[t][1].items
                    /\ GrownBy(0 - 1, pre[t][1].items)
        /\ ~MutationStep => UNCHANGED <<items, price_index, quantity_index>>
      ]_vars

\* a remove_item has popped the record and both entries of one of two
\* present identifiers, after the other caller's len
C21_Witness ==
    \E t \in Threads :
        /\ pc[t] = "remove_clear"
        /\ Cardinality(DOMAIN pre[t][1].items) = 2
        /\ Cardinality(DOMAIN items) = 1
        /\ Len(price_index) = 1 /\ Len(quantity_index) = 1
        /\ \E u \in Threads \ {t} : pc[u] = "idle" /\ call[u].op = "__len__"

====
